---------------------------- MODULE Spec2Model ----------------------------
(***************************************************************************)
(* Model of the level-2 association utilities of jwst.associations:        *)
(*   lib/rules_level2_base.py  Utility.prune_duplicate_products,           *)
(*                             Utility.finalize, Utility._merge_asns,      *)
(*                             DMSLevel2bBase (check_and_set_constraints,  *)
(*                             _add, _add_items, make_nod_asns, validity), *)
(*                             Constraint_Spectral_Science                 *)
(*   lib/diff.py               compare_asn_lists, compare_asns,            *)
(*                             compare_membership, components,             *)
(*                             get_product_names, separate_products        *)
(*                                                                         *)
(* A Python str is modelled as a sequence of one-character strings, so     *)
(* that indexing (asn_id[0]), ordering (sorted by asn_id), joining         *)
(* ('_'.join) and splitting (re.split('[_-]')) are computed, not assumed.  *)
(* An association is a record [asn_type, asn_id, products]; a product is   *)
(* [name, members]; a member is [expname, exptype].                        *)
(***************************************************************************)
EXTENDS Integers, Sequences, FiniteSets, TLC

\* pc: the last call made; asns, right_asns, others: the association lists the
\* utilities are called on; association: the DMSLevel2bBase being built; call:
\* the arguments of the last call; result, result2: what the calls returned.
VARIABLES pc, asns, right_asns, others, association, call, result, result2

vars == <<pc, asns, right_asns, others, association, call, result, result2>>

-----------------------------------------------------------------------------
(* Bounds of the model *)

\* longest association list handed to prune / finalize
MaxAsns == 3

-----------------------------------------------------------------------------
(* Python strings *)

\* The characters the model uses, in code-point order
\* ('-' 45, digits 48.., '_' 95, lower-case letters 97..).
CharOrder ==
    <<"-", "0", "1", "2", "3", "9", "_", "a", "b", "c", "e", "g", "i",
      "j", "l", "m", "n", "o", "p", "q", "r", "s", "w">>

Code(c) == CHOOSE i \in 1..Len(CharOrder) : CharOrder[i] = c

\* Python's str < str: lexicographic by code point, a proper prefix is smaller.
RECURSIVE StrLess(_, _)
StrLess(s, t) ==
    IF t = <<>> THEN FALSE
    ELSE IF s = <<>> THEN TRUE
    ELSE IF Head(s) = Head(t) THEN StrLess(Tail(s), Tail(t))
    ELSE Code(Head(s)) < Code(Head(t))

\* Elements of a sequence, as a set.
Range(seq) == {seq[i] : i \in 1..Len(seq)}

\* seq without its i-th element.
RemoveAt(seq, i) == [j \in 1..(Len(seq) - 1) |-> IF j < i THEN seq[j] ELSE seq[j + 1]]

\* Sequences over S of length lo..hi.
SeqsOf(S, lo, hi) == UNION {[1..n -> S] : n \in lo..hi}

-----------------------------------------------------------------------------
(* Literals *)

IMAGE2 == <<"i", "m", "a", "g", "e", "2">>
SPEC2 == <<"s", "p", "e", "c", "2">>
O001 == <<"o", "0", "0", "1">>
C002 == <<"c", "0", "0", "2">>
A003 == <<"a", "0", "0", "3">>
NameP == <<"p">>
NameQ == <<"q">>

Member(expname, exptype) == [expname |-> expname, exptype |-> exptype]

Product(name, members) == [name |-> name, members |-> members]

Asn(asn_type, asn_id, products) ==
    [asn_type |-> asn_type, asn_id |-> asn_id, products |-> products]


\* The inputs of prune / finalize: single-product level-2 associations.
ScienceOnly == <<Member("x", "science")>>
ScienceAndBackground == <<Member("x", "science"), Member("y", "background")>>

PruneAsns ==
    {Asn(t, id, <<Product(n, ms)>>) :
        t \in {IMAGE2, SPEC2}, id \in {O001, C002, A003},
        n \in {NameP, NameQ}, ms \in {ScienceOnly, ScienceAndBackground}}

\* An association that is not a DMSLevel2bBase (a level-3 one), carried through
\* finalize untouched.
OtherAsn == Asn(<<"i", "m", "a", "g", "e", "3">>, A003, <<Product(NameP, ScienceOnly)>>)

None == [none |-> TRUE]

-----------------------------------------------------------------------------
(* DMSLevel2bBase *)

\* DMSBaseMixin.member_ids: the exposure names of all members of all products.
member_ids(asn) ==
    UNION {{m.expname : m \in Range(p.members)} : p \in Range(asn.products)}

\* DMSLevel2bBase.__eq__: same asn_type and same member ids.
__eq__(self, other) ==
    /\ self.asn_type = other.asn_type
    /\ member_ids(self) = member_ids(other)

\* ACID type of a candidate id: its leading character.
acid_type(asn_id) ==
    IF asn_id # <<>> /\ Head(asn_id) = "o" THEN "observation"
    ELSE IF asn_id # <<>> /\ Head(asn_id) = "c" THEN "background"
    ELSE "candidate"

\* validity check 'has_science' / has_science(): a member of the current (last)
\* product has exptype 'science'.
has_science(asn) ==
    /\ asn.products # <<>>
    /\ \E m \in Range(asn.products[Len(asn.products)].members) : m.exptype = "science"

\* Mutant of validate_candidates: background candidates pass like observation
\* candidates.
validate_candidates_by_type(asn) ==
    acid_type(asn.asn_id) \in {"observation", "background"}

\* validate_candidates: observation candidates pass; background candidates need
\* a background member in the current product; any other candidate fails.
validate_candidates(asn) ==
    IF acid_type(asn.asn_id) = "observation" THEN TRUE
    ELSE IF acid_type(asn.asn_id) = "background"
    THEN /\ asn.products # <<>>
         /\ \E m \in Range(asn.products[Len(asn.products)].members) :
                m.exptype = "background"
    ELSE FALSE

\* Association.is_valid: every validity check has been validated.
is_valid(asn) == has_science(asn) /\ validate_candidates(asn)

\* DMSBaseMixin.finalize: the association itself when valid, else nothing.
asn_finalize(asn) == IF is_valid(asn) THEN <<asn>> ELSE <<>>

-----------------------------------------------------------------------------
(* diff.get_product_names *)

ProductNameList(as) == [i \in 1..Len(as) |-> as[i].products[1].name]

Count(seq, x) == Cardinality({i \in 1..Len(seq) : seq[i] = x})

\* The distinct elements of seq in order of first occurrence (the key order of
\* a Counter / dict filled from seq).
FirstOccurrences(seq) ==
    LET firsts == {i \in 1..Len(seq) : \A j \in 1..(i - 1) : seq[j] # seq[i]}
        RECURSIVE Build(_)
        Build(i) ==
            IF i > Len(seq) THEN <<>>
            ELSE IF i \in firsts THEN <<seq[i]>> \o Build(i + 1)
            ELSE Build(i + 1)
    IN Build(1)

\* get_product_names: (set of product names, list of duplicated names).
get_product_names(as) ==
    LET product_names == ProductNameList(as)
        keys == FirstOccurrences(product_names)
        dups == SelectSeq(keys, LAMBDA n : Count(product_names, n) > 1)
    IN [product_names |-> Range(product_names), dups |-> dups]

-----------------------------------------------------------------------------
(* Utility.sort_by_candidate, Utility.prune_duplicate_products *)

\* sorted(asns, key=asn_id): a stable sort on the asn_id string.
RECURSIVE InsertByCandidate(_, _)
InsertByCandidate(sorted, asn) ==
    IF sorted = <<>> THEN <<asn>>
    ELSE IF StrLess(asn.asn_id, Head(sorted).asn_id) THEN <<asn>> \o sorted
    ELSE <<Head(sorted)>> \o InsertByCandidate(Tail(sorted), asn)

RECURSIVE SortFrom(_, _)
SortFrom(sorted, rest) ==
    IF rest = <<>> THEN sorted
    ELSE SortFrom(InsertByCandidate(sorted, Head(rest)), Tail(rest))

sort_by_candidate(as) == SortFrom(<<>>, as)

\* list.remove(x): drops the first element that compares equal to x (here by
\* DMSLevel2bBase.__eq__); ValueError when there is none.
list_remove(list, x) ==
    LET hits == {i \in 1..Len(list) : __eq__(list[i], x)}
    IN IF hits = {} THEN [list |-> list, raised |-> TRUE]
       ELSE LET i == CHOOSE k \in hits : \A h \in hits : k <= h
            IN [list |-> RemoveAt(list, i), raised |-> FALSE]

RECURSIVE RemoveEach(_, _)
RemoveEach(pruned, to_remove) ==
    IF to_remove = <<>> THEN [list |-> pruned, raised |-> FALSE]
    ELSE LET r == list_remove(pruned, Head(to_remove))
         IN IF r.raised THEN r ELSE RemoveEach(r.list, Tail(to_remove))

\* The associations prune removes, in the order of the code's two loops: per
\* duplicated name (dict order), all but the first of the sorted group.
RECURSIVE Removals(_, _)
Removals(as, dups) ==
    IF dups = <<>> THEN <<>>
    ELSE LET asns_to_prune ==
                 sort_by_candidate(
                     SelectSeq(as, LAMBDA a : a.products[1].name = Head(dups)))
         IN Tail(asns_to_prune) \o Removals(as, Tail(dups))

prune_duplicate_products(as) ==
    LET dups == get_product_names(as).dups
    IN IF dups = <<>> THEN [list |-> as, raised |-> FALSE]
       ELSE RemoveEach(as, Removals(as, dups))

\* Utility.finalize on the level-2 associations lv2 and the other associations
\* oth of the input list: the valid level-2 associations are pruned and follow
\* the others.  (resequence only renumbers the sequence attribute, which these
\* records do not carry.)
RECURSIVE FinalizeEach(_)
FinalizeEach(lv2) ==
    IF lv2 = <<>> THEN <<>> ELSE asn_finalize(Head(lv2)) \o FinalizeEach(Tail(lv2))

finalize(oth, lv2) ==
    LET p == prune_duplicate_products(FinalizeEach(lv2))
    IN [finalized_asns |-> oth, lv2_asns |-> p.list, raised |-> p.raised]

-----------------------------------------------------------------------------
(* Specification of prune and finalize *)

InitPrune ==
    /\ pc = "start"
    /\ asns \in SeqsOf(PruneAsns, 0, MaxAsns)
    /\ right_asns = <<>>
    /\ others = <<>>
    /\ result = None
    /\ result2 = None
    /\ association = None
    /\ call = None

\* pruned = Utility.prune_duplicate_products(asns)
Prune ==
    /\ pc = "start"
    /\ result' = prune_duplicate_products(asns)
    /\ pc' = "pruned"
    /\ UNCHANGED <<asns, right_asns, association, call, others, result2>>

\* Utility.prune_duplicate_products(pruned)
PruneAgain ==
    /\ pc = "pruned"
    /\ ~result.raised
    /\ result2' = prune_duplicate_products(result.list)
    /\ pc' = "repruned"
    /\ UNCHANGED <<asns, right_asns, association, call, others, result>>

\* Utility.finalize(others + asns)
Finalize ==
    /\ pc = "start"
    /\ \E oth \in {<<>>, <<OtherAsn>>} :
          /\ others' = oth
          /\ result' = finalize(oth, asns)
    /\ pc' = "finalized"
    /\ UNCHANGED <<asns, right_asns, association, call, result2>>

NextPrune == Prune \/ PruneAgain \/ Finalize

SpecPrune == InitPrune /\ [][NextPrune]_vars

-----------------------------------------------------------------------------
(* Claims about prune and finalize *)

NamedIn(as, n) == {i \in 1..Len(as) : as[i].products[1].name = n}

\* prune never fails: every list.remove finds an element to drop.
PruneNeverRaises == pc \in {"pruned", "finalized"} => ~result.raised

\* C1: for every product name that occurs in more than one input association,
\* exactly one association of that name survives prune, and it carries the
\* smallest asn_id (the highest-priority candidate) among the input associations
\* of that name, whatever the order of the input list.
C1_PruneKeepsHighestCandidate ==
    pc = "pruned" =>
        \A n \in Range(get_product_names(asns).dups) :
            /\ Cardinality(NamedIn(result.list, n)) = 1
            /\ \A i \in NamedIn(result.list, n) : \A j \in NamedIn(asns, n) :
                   ~StrLess(asns[j].asn_id, result.list[i].asn_id)

\* C2: every input association whose product name occurs exactly once in the
\* input list is present in the output of prune.
C2_PruneKeepsUniqueNames ==
    pc = "pruned" =>
        \A i \in 1..Len(asns) :
            Cardinality(NamedIn(asns, asns[i].products[1].name)) = 1
                => asns[i] \in Range(result.list)

\* C3: prune is idempotent: pruning the pruned list returns the same
\* associations in the same order.
C3_PruneIdempotent == pc = "repruned" => result2.list = result.list

\* C4: after finalize no two level-2 associations of the finalized set have the
\* same product name.
C4_FinalizedNamesUnique ==
    pc = "finalized" =>
        \A i, j \in 1..Len(result.lv2_asns) :
            result.lv2_asns[i].products[1].name = result.lv2_asns[j].products[1].name
                => i = j

-----------------------------------------------------------------------------
(* Utility._merge_asns *)

\* Mutants of merge_idx: a key that leaves out the candidate id, or the type.
merge_idx_type_only(asn) == asn.asn_type

merge_idx_id_only(asn) == asn.asn_id

\* idx = '_'.join([asn['asn_type'], asn['asn_id']])
merge_idx(asn) == asn.asn_type \o <<"_">> \o asn.asn_id

ExpNames(members) == {m.expname : m \in Range(members)}

\* Mutants of new_members: the difference taken the wrong way round, and no
\* difference taken at all.
new_members_reversed(product, current_product) ==
    LET member_names == ExpNames(product.members)
        current_member_names == ExpNames(current_product.members)
        new_names == current_member_names \ member_names
    IN SelectSeq(product.members, LAMBDA m : m.expname \in new_names)

new_members_all(product, current_product) == product.members

\* Mutant of new_members: a member is new unless current_product holds it
\* with the same exptype.
new_members_by_role(product, current_product) ==
    SelectSeq(product.members, LAMBDA m : m \notin Range(current_product.members))

\* The members of product whose expname is not yet in current_product.
new_members(product, current_product) ==
    LET member_names == ExpNames(product.members)
        current_member_names == ExpNames(current_product.members)
        new_names == member_names \ current_member_names
    IN SelectSeq(product.members, LAMBDA m : m.expname \in new_names)

\* Mutant of extend_products: the current products are left as they are.
extend_products_never(current_products, product) == current_products

\* The inner loop: every current product of the same name is extended by the
\* new members of product.
extend_products(current_products, product) ==
    [j \in 1..Len(current_products) |->
        IF product.name = current_products[j].name
        THEN [current_products[j] EXCEPT
                 !.members = @ \o new_members(product, current_products[j])]
        ELSE current_products[j]]

merge_occured(current_products, product) ==
    \E j \in 1..Len(current_products) : product.name = current_products[j].name

\* One pass of the product loop for an incoming product.
merge_product(current_products, product) ==
    IF merge_occured(current_products, product)
    THEN extend_products(current_products, product)
    ELSE Append(current_products, product)

\* The product loop for an association folded into an earlier one of its key.
RECURSIVE merge_products(_, _)
merge_products(current_products, products) ==
    IF products = <<>> THEN current_products
    ELSE merge_products(merge_product(current_products, Head(products)), Tail(products))

\* The product loop for the first association of a key: current_asn is asn
\* itself, so the i-th product is read from the list being extended.
RECURSIVE merge_self(_, _)
merge_self(products, i) ==
    IF i > Len(products) THEN products
    ELSE merge_self(extend_products(products, products[i]), i + 1)

\* The loop over asns; merged is the dict, as its (idx, asn) items in
\* insertion order.
RECURSIVE merge_loop(_, _)
merge_loop(merged, rest) ==
    IF rest = <<>> THEN merged
    ELSE LET asn == Head(rest)
             idx == merge_idx(asn)
             hits == {k \in 1..Len(merged) : merged[k].idx = idx}
         IN IF hits = {}
            THEN merge_loop(
                     Append(merged,
                            [idx |-> idx,
                             asn |-> [asn EXCEPT !.products = merge_self(@, 1)]]),
                     Tail(rest))
            ELSE LET k == CHOOSE h \in hits : TRUE
                 IN merge_loop(
                        [merged EXCEPT
                            ![k].asn.products = merge_products(@, asn.products)],
                        Tail(rest))

_merge_asns(as) ==
    LET merged == merge_loop(<<>>, as)
    IN [k \in 1..Len(merged) |-> merged[k].asn]

\* Utility.merge_asns on the level-2 associations lv2 and the others oth.
merge_asns(oth, lv2) == oth \o _merge_asns(lv2)

Reverse(seq) == [i \in 1..Len(seq) |-> seq[Len(seq) + 1 - i]]

-----------------------------------------------------------------------------
(* Specification of merge *)

\* longest association list handed to merge
MaxMerge == 3

NameA == <<"a">>
NameB == <<"b">>

xS == Member("x", "science")
yS == Member("y", "science")
zS == Member("z", "science")
yB == Member("y", "background")

\* The product lists of the associations handed to merge.
MergeProducts ==
    { <<Product(NameA, <<xS, yS>>)>>,
      <<Product(NameA, <<yS, zS>>)>>,
      <<Product(NameB, <<zS>>)>>,
      <<Product(NameA, <<xS>>), Product(NameB, <<yS>>)>>,
      <<Product(NameA, <<yB, zS>>)>>,
      <<Product(NameA, <<xS>>), Product(NameA, <<zS>>)>>,
      <<Product(NameB, <<yS, yB>>)>> }

MergeKeys == {<<IMAGE2, O001>>, <<IMAGE2, C002>>, <<SPEC2, O001>>}

MergeAsns == {Asn(k[1], k[2], ps) : k \in MergeKeys, ps \in MergeProducts}

InitMerge ==
    /\ pc = "start"
    /\ asns \in SeqsOf(MergeAsns, 0, MaxMerge)
    /\ right_asns = <<>>
    /\ others = <<>>
    /\ result = None
    /\ result2 = None
    /\ association = None
    /\ call = None

\* Utility.merge_asns(others + asns)
Merge ==
    /\ pc = "start"
    /\ \E oth \in {<<>>, <<OtherAsn>>} :
          /\ others' = oth
          /\ result' = merge_asns(oth, asns)
    /\ pc' = "merged"
    /\ UNCHANGED <<asns, right_asns, association, call, result2>>

\* Utility._merge_asns on the same level-2 associations in the opposite order
MergeReversed ==
    /\ pc = "merged"
    /\ result2' = _merge_asns(Reverse(asns))
    /\ pc' = "merged_both"
    /\ UNCHANGED <<asns, right_asns, association, call, others, result>>

NextMerge == Merge \/ MergeReversed

SpecMerge == InitMerge /\ [][NextMerge]_vars

-----------------------------------------------------------------------------
(* Claims about merge *)

\* What _merge_asns returned: the result of merge_asns after the others.
Lv2Result == SubSeq(result, Len(others) + 1, Len(result))

KeyOf(asn) == <<asn.asn_type, asn.asn_id>>

\* No product of the association list holds two members of one expname.
UniqueExpNames(as) ==
    \A a \in Range(as) : \A p \in Range(a.products) :
        \A i, j \in 1..Len(p.members) :
            p.members[i].expname = p.members[j].expname => i = j

\* C5: _merge_asns returns exactly one association per distinct
\* (asn_type, asn_id) pair of the input, and what an output association holds
\* was folded in only from input associations of its own asn_type and asn_id.
C5_OneAssociationPerKey ==
    pc = "merged" =>
        /\ \A i, j \in 1..Len(Lv2Result) :
               KeyOf(Lv2Result[i]) = KeyOf(Lv2Result[j]) => i = j
        /\ {KeyOf(o) : o \in Range(Lv2Result)} = {KeyOf(a) : a \in Range(asns)}
        /\ \A o \in Range(Lv2Result) : \A p \in Range(o.products) :
               /\ \E a \in Range(asns) :
                      KeyOf(a) = KeyOf(o) /\ \E q \in Range(a.products) : q.name = p.name
               /\ \A m \in Range(p.members) :
                      \E a \in Range(asns) :
                          /\ KeyOf(a) = KeyOf(o)
                          /\ \E q \in Range(a.products) :
                                 q.name = p.name /\ m \in Range(q.members)

C5_Witness ==
    /\ pc = "merged"
    /\ Len(asns) = 3
    /\ KeyOf(asns[1]) = KeyOf(asns[3])
    /\ asns[1].asn_type = asns[2].asn_type
    /\ asns[1].asn_id # asns[2].asn_id
    /\ Len(Lv2Result) = 2
    /\ Len(Lv2Result[1].products) = 2

\* Two associations of one key, each with one product, of the same name, whose
\* common exposures are the same members (same expname and role).
C6_Case ==
    /\ Len(asns) = 2
    /\ KeyOf(asns[1]) = KeyOf(asns[2])
    /\ Len(asns[1].products) = 1
    /\ Len(asns[2].products) = 1
    /\ asns[1].products[1].name = asns[2].products[1].name
    /\ UniqueExpNames(asns)
    /\ \A m \in Range(asns[1].products[1].members) :
           \A n \in Range(asns[2].products[1].members) :
               m.expname = n.expname => m = n

\* C6: merging two same-key associations whose same-named product holds
\* {x,y} in one and {y,z} in the other gives one product holding exactly
\* {x,y,z}, once each, and the same set of members (expname and role) whichever
\* association is folded first.
C6_MergeIsUnionInEitherOrder ==
    (pc = "merged_both" /\ C6_Case) =>
        /\ Len(Lv2Result) = 1
        /\ Len(result2) = 1
        /\ Len(Lv2Result[1].products) = 1
        /\ Len(result2[1].products) = 1
        /\ ExpNames(Lv2Result[1].products[1].members)
               = member_ids(asns[1]) \cup member_ids(asns[2])
        /\ UniqueExpNames(Lv2Result)
        /\ Range(Lv2Result[1].products[1].members)
               = Range(result2[1].products[1].members)

C6_Witness ==
    /\ pc = "merged_both"
    /\ C6_Case
    /\ member_ids(asns[1]) = {"x", "y"}
    /\ member_ids(asns[2]) = {"y", "z"}
    /\ Lv2Result[1].products[1].members = <<xS, yS, zS>>
    /\ result2[1].products[1].members = <<yS, zS, xS>>

\* C7 as stated: when associations of the same key share no exposure name,
\* the set of associations returned by merge equals the input set.
C7_NoOverlapIsNoOp ==
    (/\ pc = "merged"
     /\ \A i, j \in 1..Len(asns) :
            (i # j /\ KeyOf(asns[i]) = KeyOf(asns[j]))
                => member_ids(asns[i]) \cap member_ids(asns[j]) = {})
        => Range(Lv2Result) = Range(asns)

\* No two associations of the list have the same (asn_type, asn_id), and no
\* association holds two products of one name.
C7_DistinctKeys ==
    /\ \A i, j \in 1..Len(asns) : KeyOf(asns[i]) = KeyOf(asns[j]) => i = j
    /\ \A a \in Range(asns) : \A i, j \in 1..Len(a.products) :
           a.products[i].name = a.products[j].name => i = j

\* C7 (amended): when no two input associations have the same
\* (asn_type, asn_id) and no association holds two products of one name, merge
\* is a no-op: it returns the input associations, unchanged and in input order.
C7_DistinctKeysIsNoOp ==
    (pc = "merged" /\ C7_DistinctKeys) => Lv2Result = asns

C7_Witness ==
    /\ pc = "merged"
    /\ C7_DistinctKeys
    /\ Len(asns) = 3
    /\ member_ids(asns[1]) \cap member_ids(asns[2]) # {}
    /\ Lv2Result = asns

\* C8 as stated: after _merge_asns no product of an output association holds
\* two members of one expname, for any list of input associations.
C8_ExpNamesUniqueAfterMerge == pc = "merged" => UniqueExpNames(Lv2Result)

\* C8 (amended): when no product of an input association holds two members of
\* one expname, no product of an output association does after _merge_asns.
C8_MergeKeepsExpNamesUnique ==
    (pc = "merged" /\ UniqueExpNames(asns)) => UniqueExpNames(Lv2Result)

C8_Witness ==
    /\ pc = "merged"
    /\ UniqueExpNames(asns)
    /\ Len(asns) = 3
    /\ \E o \in Range(Lv2Result) : \E p \in Range(o.products) :
           /\ Len(p.members) = 3
           /\ \A a \in Range(asns) : \A q \in Range(a.products) : Len(q.members) < 3

-----------------------------------------------------------------------------
(* diff.py: components, compare_membership, compare_asns, compare_asn_lists *)

\* Outcome of a comparison: it returns, or raises the named failure.
Pass == [ok |-> TRUE, failure |-> "none"]
Fail(why) == [ok |-> FALSE, failure |-> why]

\* re.split('[_-]', s): the pieces of s between separators, empty pieces kept.
RECURSIVE re_split(_, _)
re_split(s, piece) ==
    IF s = <<>> THEN <<piece>>
    ELSE IF Head(s) \in {"_", "-"} THEN <<piece>> \o re_split(Tail(s), <<>>)
    ELSE re_split(Tail(s), Append(piece, Head(s)))

\* Mutant of components: the pieces in order, not as a set.
components_ordered(s) == re_split(s, <<>>)

\* components(s) = set(re.split('[_-]', s))
components(s) == Range(re_split(s, <<>>))

\* Mutant of match_members: the members are paired by position.
RECURSIVE match_members_in_order(_, _)
match_members_in_order(left_members, members_right) ==
    IF left_members = <<>>
    THEN IF Len(members_right) = 0 THEN Pass ELSE Fail("Right has unaccounted for members")
    ELSE IF members_right = <<>> \/ Head(left_members).expname # Head(members_right).expname
    THEN Fail("Left has no counterpart in right")
    ELSE IF Head(left_members).exptype # Head(members_right).exptype
    THEN Fail("Left exptype != Right exptype")
    ELSE match_members_in_order(Tail(left_members), Tail(members_right))

\* The member loop of compare_membership: each left member consumes the first
\* remaining right member of its expname, whose exptype must be equal.
RECURSIVE match_members(_, _)
match_members(left_members, members_right) ==
    IF left_members = <<>>
    THEN IF Len(members_right) = 0 THEN Pass ELSE Fail("Right has unaccounted for members")
    ELSE LET left_member == Head(left_members)
             hits == {i \in 1..Len(members_right) :
                         members_right[i].expname = left_member.expname}
         IN IF hits = {} THEN Fail("Left has no counterpart in right")
            ELSE LET i == CHOOSE k \in hits : \A h \in hits : k <= h
                 IN IF left_member.exptype # members_right[i].exptype
                    THEN Fail("Left exptype != Right exptype")
                    ELSE match_members(Tail(left_members), RemoveAt(members_right, i))

\* Mutant of compare_product: the member counts are not compared first.
compare_product_any_length(left_product, right_product) ==
    match_members(left_product.members, right_product.members)

\* The body run for a left product and the right product matched to it.
compare_product(left_product, right_product) ==
    IF Len(right_product.members) # Len(left_product.members)
    THEN Fail("Product Member length differs")
    ELSE match_members(left_product.members, right_product.members)

\* The product loop of compare_membership: each left product consumes the
\* first remaining right product with the same name components.
RECURSIVE match_products(_, _)
match_products(products_left, products_right) ==
    IF products_left = <<>>
    THEN IF Len(products_right) = 0 THEN Pass ELSE Fail("Right has products left over")
    ELSE LET left_product == Head(products_left)
             hits == {j \in 1..Len(products_right) :
                         components(products_right[j].name)
                             = components(left_product.name)}
         IN IF hits = {} THEN Fail("Left has products left over")
            ELSE LET j == CHOOSE k \in hits : \A h \in hits : k <= h
                     compared == compare_product(left_product, products_right[j])
                 IN IF ~compared.ok THEN compared
                    ELSE match_products(Tail(products_left), RemoveAt(products_right, j))

compare_membership(left, right) ==
    IF Len(left.products) # Len(right.products) THEN Fail("# products differ")
    ELSE match_products(left.products, right.products)

\* Mutant of _compare_asns: the whole candidate id is compared.
_compare_asns_whole_id(left, right) ==
    IF left.asn_type # right.asn_type THEN Fail("Type mismatch")
    ELSE IF left.asn_id # right.asn_id THEN Fail("Candidate level mismatch")
    ELSE compare_membership(left, right)

_compare_asns(left, right) ==
    IF left.asn_type # right.asn_type THEN Fail("Type mismatch")
    ELSE IF left.asn_id[1] # right.asn_id[1] THEN Fail("Candidate level mismatch")
    ELSE compare_membership(left, right)

\* compare_asns re-raises the failure of _compare_asns with both associations
\* in the message.
compare_asns(left, right) == _compare_asns(left, right)

\* Mutant of separate_products: the copies keep every product.
separate_products_whole(asn) == [i \in 1..Len(asn.products) |-> asn]

\* separate_products(asn): for each product a copy of asn with
\* new_asn['products'] = [product]
separate_products(asn) ==
    [i \in 1..Len(asn.products) |-> [asn EXCEPT !.products = <<asn.products[i]>>]]

\* Mutant of name_diff: the names missing on the right only.
name_diff_left_only(left_product_names, right_product_names) ==
    left_product_names \ right_product_names

\* name_diff = left_product_names ^ right_product_names
name_diff(left_product_names, right_product_names) ==
    (left_product_names \ right_product_names)
        \cup (right_product_names \ left_product_names)

\* The association of a list that owns the product name (the dict built from
\* the list; names are unique when it is used).
asn_by_product(as, product_name) ==
    LET owners == {i \in 1..Len(as) : as[i].products[1].name = product_name}
    IN as[CHOOSE k \in owners : \A h \in owners : h <= k]

\* Mutant of compare_asn_lists: the right names are checked for duplicates
\* before the left ones.
compare_asn_lists_right_first(lefts, rights) ==
    LET left == get_product_names(lefts)
        right == get_product_names(rights)
    IN IF right.dups # <<>> THEN {Fail("Right associations have duplicate products")}
       ELSE IF left.dups # <<>>
       THEN {Fail("Left associations have duplicate products")}
       ELSE IF name_diff(left.product_names, right.product_names) # {}
       THEN {Fail("Associations do not share a common set of products")}
       ELSE LET compared ==
                    {compare_asns(asn_by_product(lefts, n),
                                  asn_by_product(rights, n)) :
                        n \in left.product_names}
            IN IF \A c \in compared : c.ok THEN {Pass}
               ELSE {c \in compared : ~c.ok}

\* compare_asn_lists: the outcomes it can have.  The pairs are compared in the
\* iteration order of a set of names, so any failing pair may be the one that
\* raises.
compare_asn_lists(lefts, rights) ==
    LET left == get_product_names(lefts)
        right == get_product_names(rights)
    IN IF left.dups # <<>> THEN {Fail("Left associations have duplicate products")}
       ELSE IF right.dups # <<>>
       THEN {Fail("Right associations have duplicate products")}
       ELSE IF name_diff(left.product_names, right.product_names) # {}
       THEN {Fail("Associations do not share a common set of products")}
       ELSE LET compared ==
                    {compare_asns(asn_by_product(lefts, n),
                                  asn_by_product(rights, n)) :
                        n \in left.product_names}
            IN IF \A c \in compared : c.ok THEN {Pass}
               ELSE {c \in compared : ~c.ok}

-----------------------------------------------------------------------------
(* Specification of the comparisons *)

\* longest association list handed to compare_asn_lists
MaxDiff == 2

NRS_CAL == <<"j", "w", "0", "0", "0", "0", "1", "_", "n", "r", "s", "_", "c", "a", "l">>
CAL_NRS == <<"j", "w", "0", "0", "0", "0", "1", "_", "c", "a", "l", "_", "n", "r", "s">>
MIR_CAL == <<"j", "w", "0", "0", "0", "0", "1", "_", "m", "i", "r", "_", "c", "a", "l">>
O002 == <<"o", "0", "0", "2">>

aS == Member("a", "science")
aB == Member("a", "background")
bS == Member("b", "science")
bB == Member("b", "background")

DiffNames == {NRS_CAL, CAL_NRS, MIR_CAL}

DiffMembers ==
    {<<aS, bB>>, <<bB, aS>>, <<aS, bS>>, <<aS>>, <<bB>>, <<aS, aB>>, <<aB, aS>>}

\* The associations compared one to one: single products, and some with two.
PairAsns ==
    {Asn(t, id, <<Product(n, ms)>>) :
        t \in {IMAGE2, SPEC2}, id \in {O001, O002, C002},
        n \in DiffNames, ms \in DiffMembers}
    \cup
    {Asn(IMAGE2, O001, <<Product(n1, ms1), Product(n2, ms2)>>) :
        n1 \in {NRS_CAL, CAL_NRS}, n2 \in {CAL_NRS, MIR_CAL},
        ms1 \in {<<aS>>, <<bB>>}, ms2 \in {<<aS>>, <<bB>>}}

\* The single-product associations of the compared lists.
ListAsns ==
    {Asn(t, O001, <<Product(n, <<aS>>)>>) : t \in {IMAGE2, SPEC2}, n \in DiffNames}
    \cup
    {Asn(IMAGE2, C002, <<Product(NRS_CAL, <<aS>>)>>),
     Asn(IMAGE2, O001, <<Product(NRS_CAL, <<aB>>)>>)}

InitDiff ==
    /\ pc = "start"
    /\ \/ /\ asns \in SeqsOf(PairAsns, 1, 1)
          /\ right_asns \in SeqsOf(PairAsns, 1, 1)
       \/ /\ asns \in SeqsOf(ListAsns, 0, MaxDiff)
          /\ right_asns \in SeqsOf(ListAsns, 0, MaxDiff)
    /\ others = <<>>
    /\ result = None
    /\ result2 = None
    /\ association = None
    /\ call = None

\* compare_asn_lists(asns, right_asns)
CompareLists ==
    /\ pc = "start"
    /\ result' \in compare_asn_lists(asns, right_asns)
    /\ pc' = "lists_compared"
    /\ UNCHANGED <<asns, right_asns, association, call, others, result2>>

\* compare_asn_lists(right_asns, asns)
CompareListsSwapped ==
    /\ pc = "lists_compared"
    /\ result2' \in compare_asn_lists(right_asns, asns)
    /\ pc' = "lists_both"
    /\ UNCHANGED <<asns, right_asns, association, call, others, result>>

\* compare_asns(asns[0], right_asns[0])
CompareAsns ==
    /\ pc = "start"
    /\ Len(asns) >= 1
    /\ Len(right_asns) >= 1
    /\ result' = compare_asns(asns[1], right_asns[1])
    /\ pc' = "asns_compared"
    /\ UNCHANGED <<asns, right_asns, association, call, others, result2>>

\* compare_asns(right_asns[0], asns[0])
CompareAsnsSwapped ==
    /\ pc = "asns_compared"
    /\ result2' = compare_asns(right_asns[1], asns[1])
    /\ pc' = "asns_both"
    /\ UNCHANGED <<asns, right_asns, association, call, others, result>>

\* The association with the members of its first product in another order.
permute_members(asn, order) ==
    LET product == asn.products[1]
        members == [i \in 1..Len(product.members) |-> product.members[order[i]]]
    IN [asn EXCEPT !.products[1] = Product(product.name, members)]

MemberOrders(asn) == Permutations(1..Len(asn.products[1].members))

\* compare_asns on the same two associations with the members of the product
\* listed in another order on either side
CompareAsnsPermuted ==
    /\ pc = "asns_compared"
    /\ \E left_order \in MemberOrders(asns[1]), right_order \in MemberOrders(right_asns[1]) :
           /\ call' = [left |-> permute_members(asns[1], left_order),
                       right |-> permute_members(right_asns[1], right_order)]
           /\ result2' = compare_asns(call'.left, call'.right)
    /\ pc' = "asns_permuted"
    /\ UNCHANGED <<asns, right_asns, association, others, result>>

\* What a comparison raises: nothing, or an AssertionError whose message is
\* formatted from the reason and the named values.
NotRaised == [raised |-> FALSE]
AssertionError(reason, values) ==
    [raised |-> TRUE, reason |-> reason, values |-> values]

\* Mutant of compare_asns_error: the failure of _compare_asns is raised as
\* it is.
compare_asns_error_bare(left, right) ==
    LET compared == _compare_asns(left, right)
    IN IF compared.ok THEN NotRaised
       ELSE AssertionError(compared.failure, [reason |-> compared.failure])

\* compare_asns, with the message of what it raises: the AssertionError of
\* _compare_asns is raised again with reason, left and right in the message.
compare_asns_error(left, right) ==
    LET compared == _compare_asns(left, right)
    IN IF compared.ok THEN NotRaised
       ELSE AssertionError(compared.failure,
                           [reason |-> compared.failure, left |-> left, right |-> right])

\* compare_asn_lists, with the message of what it raises.
compare_asn_lists_error(lefts, rights) ==
    LET left == get_product_names(lefts)
        right == get_product_names(rights)
        diff == name_diff(left.product_names, right.product_names)
    IN IF left.dups # <<>>
       THEN {AssertionError("Left associations have duplicate products",
                            [left_duplicates |-> left.dups])}
       ELSE IF right.dups # <<>>
       THEN {AssertionError("Right associations have duplicate products",
                            [right_duplicates |-> right.dups])}
       ELSE IF diff # {}
       THEN {AssertionError("Associations do not share a common set of products",
                            [name_diff |-> diff])}
       ELSE LET compared ==
                    {compare_asns_error(asn_by_product(lefts, n),
                                        asn_by_product(rights, n)) :
                        n \in left.product_names}
            IN IF \A c \in compared : ~c.raised THEN {NotRaised}
               ELSE {c \in compared : c.raised}

\* compare_asn_lists(asns, right_asns), observed by what it raises
RaiseFromLists ==
    /\ pc = "start"
    /\ result' \in compare_asn_lists_error(asns, right_asns)
    /\ pc' = "lists_raised"
    /\ UNCHANGED <<asns, right_asns, association, call, others, result2>>

\* compare_asns(asns[0], right_asns[0]), observed by what it raises
RaiseFromAsns ==
    /\ pc = "start"
    /\ Len(asns) >= 1
    /\ Len(right_asns) >= 1
    /\ result' = compare_asns_error(asns[1], right_asns[1])
    /\ pc' = "asns_raised"
    /\ UNCHANGED <<asns, right_asns, association, call, others, result2>>

\* separate_products(asns[0])
SeparateProducts ==
    /\ pc = "start"
    /\ Len(asns) >= 1
    /\ call' = [asn |-> asns[1]]
    /\ result' = separate_products(asns[1])
    /\ pc' = "separated"
    /\ UNCHANGED <<asns, right_asns, association, others, result2>>

NextDiff ==
    \/ RaiseFromLists
    \/ RaiseFromAsns
    \/ SeparateProducts
    \/ CompareLists
    \/ CompareListsSwapped
    \/ CompareAsns
    \/ CompareAsnsSwapped
    \/ CompareAsnsPermuted

SpecDiff == InitDiff /\ [][NextDiff]_vars

-----------------------------------------------------------------------------
(* Claims about the comparisons *)

\* C9: a comparison and the same comparison with its arguments exchanged agree
\* on pass or fail, for compare_asn_lists on two lists and for compare_asns on
\* two associations.
C9_CompareSymmetric ==
    pc \in {"lists_both", "asns_both"} => result.ok = result2.ok

C9_Witness ==
    /\ pc = "asns_both"
    /\ asns[1].products[1].members = <<aS, bB>>
    /\ right_asns[1].products[1].members = <<aS, aB>>
    /\ result = Fail("Left has no counterpart in right")
    /\ ~result2.ok

\* Two single-product associations that differ in nothing but the product name.
SameButName(left, right) ==
    /\ left.asn_type = right.asn_type
    /\ left.asn_id = right.asn_id
    /\ Len(left.products) = 1
    /\ Len(right.products) = 1
    /\ left.products[1].members = right.products[1].members
    /\ left.products[1].name # right.products[1].name

\* Two lists without duplicate product names, equal but for the product name
\* of the k-th association.
ListsSameButName(k) ==
    /\ Len(asns) = Len(right_asns)
    /\ k \in 1..Len(asns)
    /\ get_product_names(asns).dups = <<>>
    /\ get_product_names(right_asns).dups = <<>>
    /\ SameButName(asns[k], right_asns[k])
    /\ \A i \in 1..Len(asns) : i # k => asns[i] = right_asns[i]

NamesAt(k, left_name, right_name) ==
    /\ asns[k].products[1].name = left_name
    /\ right_asns[k].products[1].name = right_name

\* C10 as stated: under compare_asn_lists, collections identical but for a
\* product named 'jw00001_nrs_cal' on one side and 'jw00001_cal_nrs' on the
\* other compare equal, and with 'jw00001_mir_cal' on the other they fail.
C10_ListsTolerateTokenOrder ==
    pc = "lists_compared" =>
        \A k \in 1..Len(asns) :
            ListsSameButName(k) =>
                /\ NamesAt(k, NRS_CAL, CAL_NRS) => result.ok
                /\ NamesAt(k, NRS_CAL, MIR_CAL) => ~result.ok

\* C10 (amended): under compare_asns, two associations identical but for the
\* product name compare equal exactly when the names have the same set of
\* '_'/'-' tokens ('jw00001_nrs_cal' and 'jw00001_cal_nrs' pass,
\* 'jw00001_nrs_cal' and 'jw00001_mir_cal' fail); under compare_asn_lists the
\* product names must be equal as strings, so both cases fail there with the
\* product-set failure.
C10_PairsTolerateTokenOrder ==
    /\ (pc = "asns_compared" /\ SameButName(asns[1], right_asns[1])) =>
           /\ result.ok = (components(asns[1].products[1].name)
                               = components(right_asns[1].products[1].name))
           /\ NamesAt(1, NRS_CAL, CAL_NRS) => result.ok
           /\ NamesAt(1, NRS_CAL, MIR_CAL) => ~result.ok
    /\ pc = "lists_compared" =>
           \A k \in 1..Len(asns) :
               ListsSameButName(k) =>
                   result = Fail("Associations do not share a common set of products")

C10_Witness ==
    /\ pc = "asns_compared"
    /\ SameButName(asns[1], right_asns[1])
    /\ NamesAt(1, NRS_CAL, CAL_NRS)
    /\ asns[1].products[1].members = <<aS, bB>>
    /\ result = Pass

\* Two associations of one product each.
SingleProducts(left, right) == Len(left.products) = 1 /\ Len(right.products) = 1

\* No two members of the product have the same expname.
DistinctExpNames(product) ==
    \A i, j \in 1..Len(product.members) :
        product.members[i].expname = product.members[j].expname => i = j

\* C11 as stated: for any two single-product associations, listing the members
\* of the product in another order on either side never changes whether
\* compare_asns passes or fails.
C11_MemberOrderIrrelevant ==
    (pc = "asns_permuted" /\ SingleProducts(asns[1], right_asns[1])) =>
        result2.ok = result.ok

\* C11 (amended): for two single-product associations in which no product
\* holds two members of one expname, listing the members in another order on
\* either side never changes whether compare_asns passes or fails.
C11_OrderIrrelevantForDistinctNames ==
    (/\ pc = "asns_permuted"
     /\ SingleProducts(asns[1], right_asns[1])
     /\ DistinctExpNames(asns[1].products[1])
     /\ DistinctExpNames(right_asns[1].products[1])) =>
        result2.ok = result.ok

C11_Witness ==
    /\ pc = "asns_permuted"
    /\ asns[1].products[1].members = <<aS, bB>>
    /\ right_asns[1].products[1].members = <<aS, bB>>
    /\ call.left = asns[1]
    /\ call.right.products[1].members = <<bB, aS>>
    /\ result = Pass
    /\ result2 = Pass

-----------------------------------------------------------------------------
(* DMSLevel2bBase: names of exposures and products *)

\* PRODUCT_NAME_DEFAULT of dms_base
PRODUCT_NAME_DEFAULT == <<"u", "n", "d", "e", "f", "i", "n", "e", "d">>

UNCAL == <<"_", "u", "n", "c", "a", "l">>
RATE == <<"r", "a", "t", "e">>
RATEINTS == <<"r", "a", "t", "e", "i", "n", "t", "s">>

\* the suffixes remove_suffix knows, as far as the modelled names use them
KnownSuffixes == {RATE, RATEINTS, <<"u", "n", "c", "a", "l">>, <<"c", "a", "l">>}

\* index of the last c in s, 0 when there is none
LastIndex(s, c) ==
    LET at == {i \in 1..Len(s) : s[i] = c}
    IN IF at = {} THEN 0 ELSE CHOOSE i \in at : \A j \in at : j <= i

EndsWith(s, t) ==
    Len(s) >= Len(t) /\ SubSeq(s, Len(s) - Len(t) + 1, Len(s)) = t

\* os.path.split(p)[1]: what follows the last '/'
basename(p) == SubSeq(p, LastIndex(p, "/") + 1, Len(p))

\* os.path.splitext(p)[0]: p without its extension, the last '.' of the
\* basename and what follows, leading dots of the basename not counting
splitext(p) ==
    LET sep == LastIndex(p, "/")
        dot == LastIndex(p, ".")
    IN IF dot > sep /\ \E i \in (sep + 1)..(dot - 1) : p[i] # "."
       THEN SubSeq(p, 1, dot - 1)
       ELSE p

\* remove_suffix(name)[0]: name without a trailing '_' or '-' and known suffix
remove_suffix(name) ==
    LET tails == {sep \o suffix : sep \in {<<"_">>, <<"-">>}, suffix \in KnownSuffixes}
        found == {t \in tails : EndsWith(name, t) /\ Len(name) > Len(t)}
    IN IF found = {} THEN name
       ELSE LET t == CHOOSE x \in found : \A y \in found : Len(y) <= Len(x)
            IN SubSeq(name, 1, Len(name) - Len(t))

\* Utility.rename_to_level2a: '<path>_uncal<.ext>' becomes '<path>_rate<.ext>'
\* or '<path>_rateints<.ext>'; any other name is returned as it is.
rename_to_level2a(level1b_name, use_integrations) ==
    LET n == Len(level1b_name)
        at == {i \in 2..(n - 7) :
                  /\ SubSeq(level1b_name, i, i + 5) = UNCAL
                  /\ level1b_name[i + 6] = "."}
    IN IF at = {} THEN level1b_name
       ELSE LET i == CHOOSE k \in at : \A j \in at : j <= k
                suffix == IF use_integrations THEN RATEINTS ELSE RATE
            IN SubSeq(level1b_name, 1, i - 1) \o <<"_">> \o suffix
                   \o SubSeq(level1b_name, i + 6, n)

-----------------------------------------------------------------------------
(* DMSLevel2bBase: adding members *)

\* The association being built: asn_id is the id of its candidate (self.acid),
\* meta the keys merged into its data, sequence its number and next_sequence
\* the next value of the counter _sequence.
Association(asn_type, asn_id, products, meta, sequence, next_sequence) ==
    [asn_type |-> asn_type, asn_id |-> asn_id, products |-> products,
     meta |-> meta, sequence |-> sequence, next_sequence |-> next_sequence]

\* Mutant of check_and_set_constraints: no check of the candidate type.
check_and_set_constraints_any_candidate(asn, match, reprocess) ==
    [match |-> match, reprocess |-> reprocess]

\* check_and_set_constraints, given what the constraints of the rule returned
check_and_set_constraints(asn, match, reprocess) ==
    IF match /\ acid_type(asn.asn_id) \notin {"observation", "background"}
    THEN [match |-> FALSE, reprocess |-> <<>>]
    ELSE [match |-> match, reprocess |-> reprocess]

\* members_by_type: the members of the current (last) product of the type
members_by_type(asn, member_type) ==
    IF asn.products = <<>> THEN <<>>
    ELSE LET OfType(member) == member.exptype = member_type
         IN SelectSeq(asn.products[Len(asn.products)].members, OfType)

\* dms_product_name: from the first science member of the current product
dms_product_name(asn) ==
    LET science == members_by_type(asn, "science")
    IN IF science = <<>> THEN PRODUCT_NAME_DEFAULT
       ELSE remove_suffix(splitext(science[1].expname))

\* make_member: the item's file under its level-2a name, in the role the rule
\* gives the item
make_member(item) ==
    Member(rename_to_level2a(item.filename, item.is_tso), item.exptype)

\* new_product(name): a product without members becomes the current product
new_product(asn, name) ==
    [asn EXCEPT !.products = Append(@, Product(name, <<>>))]

\* members.append(member) on the current product
append_member(asn, member) ==
    [asn EXCEPT !.products[Len(asn.products)].members = Append(@, member)]

\* Mutant of update_asn: the name of the product is left as it is.
update_asn_keep_name(asn) == asn

\* update_asn: the current product is named by dms_product_name
update_asn(asn) ==
    [asn EXCEPT !.products[Len(asn.products)].name = dms_product_name(asn)]

\* _add(item)
_add(asn, item) == update_asn(append_member(asn, make_member(item)))

\* What a product_name_func returns for the idx-th item, when it returns.
FuncName(idx) ==
    <<"f", "u", "n", "c", "_">> \o <<(<<"1", "2", "3", "4", "5", "6", "7", "8", "9">>)[idx]>>

\* The product_name_func is given and returns a name for the idx-th item:
\* "returns" always does, "raises" never, "raises_first" for all but the first.
FuncReturns(product_name_func, idx) ==
    \/ product_name_func = "returns"
    \/ product_name_func = "raises_first" /\ idx # 1

\* Mutant of add_item: the member goes to the current product, no product is
\* made for it.
add_item_to_current(asn, item, idx, product_name_func) ==
    LET added == update_asn(append_member(asn, Member(item, "science")))
    IN IF FuncReturns(product_name_func, idx)
       THEN [added EXCEPT !.products[Len(added.products)].name = FuncName(idx)]
       ELSE added

\* The loop body of _add_items for the idx-th item.
add_item(asn, item, idx, product_name_func) ==
    LET added == update_asn(append_member(new_product(asn, PRODUCT_NAME_DEFAULT),
                                          Member(item, "science")))
    IN IF FuncReturns(product_name_func, idx)
       THEN [added EXCEPT !.products[Len(added.products)].name = FuncName(idx)]
       ELSE added

RECURSIVE add_items_from(_, _, _, _)
add_items_from(asn, items, idx, product_name_func) ==
    IF idx > Len(items) THEN asn
    ELSE add_items_from(add_item(asn, items[idx], idx, product_name_func),
                        items, idx + 1, product_name_func)

\* The outcome of a call on the association: the association after the call,
\* and the exception the call raised, if any.
Returned(asn) == [association |-> asn, raised |-> "none"]
Raised(asn, exception) == [association |-> asn, raised |-> exception]

\* Mutant of _add_items: the candidate is set before its id is checked.
_add_items_candidate_first(asn, items, meta, product_name_func, acid) ==
    LET with_acid == [asn EXCEPT !.asn_id = acid]
    IN IF acid # <<>> /\ Head(acid) \in {"o", "c"}
       THEN LET added == add_items_from(with_acid, items, 1, product_name_func)
            IN Returned([added EXCEPT !.meta = @ \cup meta,
                                      !.sequence = added.next_sequence,
                                      !.next_sequence = @ + 1])
       ELSE Raised(with_acid, "ValueError")

\* _add_items(items, meta, product_name_func, acid)
_add_items(asn, items, meta, product_name_func, acid) ==
    IF acid # <<>> /\ Head(acid) \in {"o", "c"}
    THEN LET added == add_items_from([asn EXCEPT !.asn_id = acid],
                                     items, 1, product_name_func)
         IN Returned([added EXCEPT !.meta = @ \cup meta,
                                   !.sequence = added.next_sequence,
                                   !.next_sequence = @ + 1])
    ELSE Raised(asn, "ValueError")

\* The science and the other members of a product, as make_nod_asns splits them.
science_exps(product) ==
    LET IsScience(member) == member.exptype = "science"
    IN SelectSeq(product.members, IsScience)

nonscience_exps(product) ==
    LET NotScience(member) == member.exptype # "science"
    IN SelectSeq(product.members, NotScience)

\* Mutant of now_background: the other science members keep their role.
still_science(science, science_exp) ==
    LET Other(other_science) == other_science.expname # science_exp.expname
    IN SelectSeq(science, Other)

\* The science members other than science_exp, as background members.
now_background(science, science_exp) ==
    LET Other(other_science) == other_science.expname # science_exp.expname
        others_science == SelectSeq(science, Other)
    IN [i \in 1..Len(others_science) |->
           Member(others_science[i].expname, "background")]

\* The association make_nod_asns builds for one science member of the product.
nod_asn(asn, product, science_exp) ==
    LET product_name == remove_suffix(splitext(basename(science_exp.expname)))
        nod_members == <<science_exp>>
                           \o now_background(science_exps(product), science_exp)
                           \o nonscience_exps(product)
    IN [asn EXCEPT !.products = <<Product(product_name, nod_members)>>]

\* make_nod_asns: the valid ones of the associations built for the science
\* members of the first product; None when there is no product.
make_nod_asns(asn) ==
    IF asn.products = <<>> THEN None
    ELSE LET product == asn.products[1]
             science == science_exps(product)
             built == [i \in 1..Len(science) |-> nod_asn(asn, product, science[i])]
         IN SelectSeq(built, is_valid)

-----------------------------------------------------------------------------
(* Constraint_Spectral_Science *)

\* SPEC2_SCIENCE_EXP_TYPES of dms_base: the general list (some of its types)
SPEC2_SCIENCE_EXP_TYPES == {"nrs_fixedslit", "nrs_msaspec", "nis_wfss", "nrc_wfss"}

\* The exposure types of items: those of the general list, and others.
ExpTypes == SPEC2_SCIENCE_EXP_TYPES \cup {"nrc_image", "mir_image"}

\* The values of the argument exclude_exp_types: None, or a list of types.
ExcludeExpTypes ==
    {[given |-> FALSE, types |-> {}]}
        \cup {[given |-> TRUE, types |-> E] : E \in SUBSET ExpTypes}

\* general_science of Constraint_Spectral_Science.__init__; the argument is
\* [given |-> FALSE] for None, else [given |-> TRUE, types |-> the list]
general_science(exclude_exp_types) ==
    IF ~exclude_exp_types.given THEN SPEC2_SCIENCE_EXP_TYPES
    ELSE (SPEC2_SCIENCE_EXP_TYPES \ exclude_exp_types.types)
             \cup (exclude_exp_types.types \ SPEC2_SCIENCE_EXP_TYPES)

\* Constraint_Spectral_Science(exclude_exp_types) on an item of the exp_type:
\* the exp_type is one of the alternatives of the constraint's value
Constraint_Spectral_Science(exclude_exp_types, exp_type) ==
    exp_type \in general_science(exclude_exp_types)

-----------------------------------------------------------------------------
(* Specification of an association being built *)

\* most members an association is given, over all its products
MaxMembers == 3

\* last value taken from the counter _sequence
MaxSequence == 3

A_UNCAL == <<"a", "_", "u", "n", "c", "a", "l", ".", "f">>
B_UNCAL == <<"b", "_", "u", "n", "c", "a", "l", ".", "f">>
C_RAW == <<"c", ".", "f">>
A_RATE == <<"a", "_", "r", "a", "t", "e", ".", "f">>
B_CAL == <<"d", "/", "b", "_", "c", "a", "l", ".", "f">>

Item(filename, exptype, is_tso) ==
    [filename |-> filename, exptype |-> exptype, is_tso |-> is_tso]

\* The items a rule adds: pool entries with the role the rule gives them.
Items ==
    {Item(A_UNCAL, "science", FALSE), Item(A_UNCAL, "science", TRUE),
     Item(B_UNCAL, "background", FALSE), Item(C_RAW, "science", FALSE)}

\* The arguments of _add_items.
ItemLists == {<<>>, <<A_RATE>>, <<A_RATE, B_CAL>>}
Metas == {{"program"}}
ProductNameFuncs == {"None", "returns", "raises", "raises_first"}
Acids == {O001, C002, A003}

RECURSIVE SumLen(_)
SumLen(products) ==
    IF products = <<>> THEN 0
    ELSE Len(Head(products).members) + SumLen(Tail(products))

\* The association after __init__ and _init_hook: its candidate, and a first
\* product without members.
InitAssociation ==
    /\ pc = "created"
    /\ \E acid \in Acids :
           association = Association(SPEC2, acid,
                                     <<Product(PRODUCT_NAME_DEFAULT, <<>>)>>, {}, 1, 2)
    /\ asns = <<>>
    /\ right_asns = <<>>
    /\ others = <<>>
    /\ call = None
    /\ result = None
    /\ result2 = None

\* check_and_set_constraints(item), for each outcome of the rule's constraints
CheckAndSetConstraints ==
    /\ \E match \in BOOLEAN, reprocess \in {<<>>, <<"item">>} :
           /\ call' = [self |-> association, match |-> match, reprocess |-> reprocess]
           /\ result' = check_and_set_constraints(association, match, reprocess)
    /\ pc' = "check_and_set_constraints"
    /\ UNCHANGED <<asns, right_asns, others, association, result2>>

\* _add(item)
Add ==
    /\ SumLen(association.products) < MaxMembers
    /\ \E item \in Items :
           /\ call' = [self |-> association, item |-> item]
           /\ association' = _add(association, item)
    /\ pc' = "_add"
    /\ result' = None
    /\ UNCHANGED <<asns, right_asns, others, result2>>

\* _add_items(items, meta, product_name_func, acid)
AddItems ==
    /\ association.next_sequence <= MaxSequence
    /\ \E items \in ItemLists, meta \in Metas,
          product_name_func \in ProductNameFuncs, acid \in Acids :
           /\ SumLen(association.products) + Len(items) <= MaxMembers
           /\ call' = [self |-> association, items |-> items, meta |-> meta,
                       product_name_func |-> product_name_func, acid |-> acid]
           /\ LET out == _add_items(association, items, meta, product_name_func, acid)
              IN /\ association' = out.association
                 /\ result' = [raised |-> out.raised]
    /\ pc' = "_add_items"
    /\ UNCHANGED <<asns, right_asns, others, result2>>

\* make_nod_asns()
MakeNodAsns ==
    /\ call' = [self |-> association]
    /\ result' = make_nod_asns(association)
    /\ pc' = "make_nod_asns"
    /\ UNCHANGED <<asns, right_asns, others, association, result2>>

\* Constraint_Spectral_Science(exclude_exp_types) checked on an item
SpectralScience ==
    /\ pc = "created"
    /\ \E exclude_exp_types \in ExcludeExpTypes, exp_type \in ExpTypes :
           /\ call' = [exclude_exp_types |-> exclude_exp_types, exp_type |-> exp_type]
           /\ result' = Constraint_Spectral_Science(exclude_exp_types, exp_type)
    /\ pc' = "Constraint_Spectral_Science"
    /\ UNCHANGED <<asns, right_asns, others, association, result2>>

NextAssociation ==
    \/ CheckAndSetConstraints
    \/ Add
    \/ AddItems
    \/ MakeNodAsns
    \/ SpectralScience

SpecAssociation == InitAssociation /\ [][NextAssociation]_vars

-----------------------------------------------------------------------------
(* Claims about an association being built *)

\* The candidate of the association is an observation or a background one.
Level2Candidate(asn) == acid_type(asn.asn_id) \in {"observation", "background"}

\* C12 as stated: whenever the candidate type is neither observation nor
\* background, check_and_set_constraints returns no match and an empty
\* reprocess list, whatever the constraints returned; otherwise it returns
\* what the constraints returned.
C12_OtherCandidatesNeverMatch ==
    pc = "check_and_set_constraints" =>
        IF Level2Candidate(call.self)
        THEN result = [match |-> call.match, reprocess |-> call.reprocess]
        ELSE result = [match |-> FALSE, reprocess |-> <<>>]

\* C12 (amended): whenever the candidate type is neither observation nor
\* background, check_and_set_constraints returns no match; the reprocess list
\* is empty when the constraints matched, and is the one the constraints
\* returned when they did not.  For an observation or background candidate it
\* returns what the constraints returned.
C12_OtherCandidatesMatchRejected ==
    pc = "check_and_set_constraints" =>
        IF Level2Candidate(call.self)
        THEN result = [match |-> call.match, reprocess |-> call.reprocess]
        ELSE /\ result.match = FALSE
             /\ call.match => result.reprocess = <<>>
             /\ ~call.match => result.reprocess = call.reprocess

C12_Witness ==
    /\ pc = "check_and_set_constraints"
    /\ acid_type(call.self.asn_id) = "candidate"
    /\ call.match
    /\ call.reprocess = <<"item">>
    /\ result = [match |-> FALSE, reprocess |-> <<>>]

\* The association holds a member of the role, in any of its products.
HoldsRole(asn, exptype) ==
    \E i \in 1..Len(asn.products) :
        \E j \in 1..Len(asn.products[i].members) :
            asn.products[i].members[j].exptype = exptype

current_product(asn) == asn.products[Len(asn.products)]

\* The last call added a member: an _add, or an _add_items of some items that
\* did not raise.
MemberAdded ==
    \/ pc = "_add"
    \/ pc = "_add_items" /\ result.raised = "none" /\ call.items # <<>>

NodCase ==
    /\ pc = "make_nod_asns"
    /\ Len(call.self.products) = 1
    /\ DistinctExpNames(Product(call.self.products[1].name,
                                science_exps(call.self.products[1])))

\* An association returned for the product: a single product with exactly one
\* science member, every other science member of the product as a background
\* member, and every other member of the product.
IsNodOf(asn, product) ==
    LET science == Range(science_exps(product))
        nonscience == Range(nonscience_exps(product))
        members == asn.products[1].members
        kept == {i \in 1..Len(members) : members[i].exptype = "science"}
    IN /\ Len(asn.products) = 1
       /\ Len(members) = Len(product.members)
       /\ Cardinality(kept) = 1
       /\ \A i \in kept :
              /\ members[i] \in science
              /\ \A other \in science \ {members[i]} :
                     Count(members, Member(other.expname, "background")) >= 1
       /\ \A member \in nonscience :
              Count(members, member) >= Count(product.members, member)

\* The science member an association was returned for.
ScienceOf(asn) ==
    CHOOSE member \in Range(asn.products[1].members) : member.exptype = "science"

\* C15 as stated: on an association whose single product holds k science
\* members of distinct expnames and m other members, make_nod_asns returns
\* exactly k associations, each with one science member, the other k-1
\* science members as background members and the m other members.
C15_NodAsnPerScience ==
    NodCase =>
        LET product == call.self.products[1]
        IN /\ Len(result) = Len(science_exps(product))
           /\ \A i \in 1..Len(result) : IsNodOf(result[i], product)
           /\ {ScienceOf(result[i]) : i \in 1..Len(result)}
                  = Range(science_exps(product))

\* C15 (amended): on such an association make_nod_asns returns at most k
\* associations, each for another science member and each with one science
\* member, the other k-1 science members as background members and the m
\* other members; it returns exactly k when the association is valid, and the
\* associations that would not be valid are left out.
C15_NodAsnPerScienceWhenValid ==
    NodCase =>
        LET product == call.self.products[1]
            science == science_exps(product)
        IN /\ Len(result) <= Len(science)
           /\ \A i \in 1..Len(result) :
                  IsNodOf(result[i], product) /\ is_valid(result[i])
           /\ Cardinality({ScienceOf(result[i]) : i \in 1..Len(result)}) = Len(result)
           /\ is_valid(call.self) => Len(result) = Len(science)

C15_Witness ==
    /\ NodCase
    /\ call.self.asn_id = O001
    /\ Len(science_exps(call.self.products[1])) = 2
    /\ Len(nonscience_exps(call.self.products[1])) = 1
    /\ Len(result) = 2
    /\ result[1].products[1].name = <<"a">>
    /\ result[2].products[1].name = <<"c">>
    /\ result[2].products[1].members =
           <<Member(C_RAW, "science"), Member(A_RATE, "background"),
             Member(<<"b", "_", "r", "a", "t", "e", ".", "f">>, "background")>>

\* C16: _add_items with a candidate id that starts with neither 'o' nor 'c'
\* raises ValueError and leaves the association as it was: its candidate, its
\* products and members, its meta data and the sequence counter.
C16_InvalidAcidChangesNothing ==
    (pc = "_add_items" /\ (call.acid = <<>> \/ Head(call.acid) \notin {"o", "c"})) =>
        /\ result.raised = "ValueError"
        /\ association.asn_id = call.self.asn_id
        /\ association.products = call.self.products
        /\ association.meta = call.self.meta
        /\ association.sequence = call.self.sequence
        /\ association.next_sequence = call.self.next_sequence
        /\ association = call.self

C16_Witness ==
    /\ pc = "_add_items"
    /\ call.acid = A003
    /\ call.items = <<A_RATE, B_CAL>>
    /\ call.meta = {"program"}
    /\ call.self.asn_id = O001
    /\ call.self.meta = {}
    /\ Len(call.self.products) = 1
    /\ result.raised = "ValueError"
    /\ association = call.self

-----------------------------------------------------------------------------
(* Claims about the comparisons, continued *)

\* C17: separate_products(asn) returns one association per product of asn, in
\* the order of the products; the i-th holds the i-th product only and has the
\* other fields of asn; asn holds all its products afterwards.
C17_OneAssociationPerProduct ==
    pc = "separated" =>
        /\ Len(result) = Len(call.asn.products)
        /\ \A i \in 1..Len(result) :
               /\ result[i].products = <<call.asn.products[i]>>
               /\ result[i].asn_type = call.asn.asn_type
               /\ result[i].asn_id = call.asn.asn_id
               /\ DOMAIN result[i] = DOMAIN call.asn
        /\ asns[1] = call.asn

C17_Witness ==
    /\ pc = "separated"
    /\ Len(asns[1].products) = 2
    /\ asns[1].products[1] = Product(NRS_CAL, <<aS>>)
    /\ asns[1].products[2] = Product(MIR_CAL, <<bB>>)
    /\ result = <<Asn(IMAGE2, O001, <<Product(NRS_CAL, <<aS>>)>>),
                  Asn(IMAGE2, O001, <<Product(MIR_CAL, <<bB>>)>>)>>

-----------------------------------------------------------------------------
(* Claims about Constraint_Spectral_Science *)

\* C18: Constraint_Spectral_Science(exclude_exp_types=E) accepts exactly the
\* exposure types of SPEC2_SCIENCE_EXP_TYPES that are not in E: none that is
\* listed in E and none from outside the general list, for every list E.
C18_ExcludedNeverAccepted ==
    (pc = "Constraint_Spectral_Science" /\ call.exclude_exp_types.given) =>
        result = (/\ call.exp_type \in SPEC2_SCIENCE_EXP_TYPES
                  /\ call.exp_type \notin call.exclude_exp_types.types)

-----------------------------------------------------------------------------
(* Claims about compare_asns and compare_asn_lists *)

\* Every member of the left product is a member of the right product too,
\* with the same expname and the same exptype.
EveryLeftMemberOnRight(left_product, right_product) ==
    \A i \in 1..Len(left_product.members) :
        \E j \in 1..Len(right_product.members) :
            /\ right_product.members[j].expname = left_product.members[i].expname
            /\ right_product.members[j].exptype = left_product.members[i].exptype

\* C19: for two single-product associations whose members have distinct
\* expnames on each side, compare_asns passes exactly when the asn_type values
\* are equal, the first characters of the asn_id values are equal, the product
\* names hold the same set of '_'/'-' tokens, the products hold the same
\* number of members, and every expname of the left is on the right with the
\* same exptype.
C19_PassIffAllAgree ==
    (/\ pc = "asns_compared"
     /\ SingleProducts(asns[1], right_asns[1])
     /\ DistinctExpNames(asns[1].products[1])
     /\ DistinctExpNames(right_asns[1].products[1])) =>
        LET left == asns[1]
            right == right_asns[1]
        IN result.ok =
               (/\ left.asn_type = right.asn_type
                /\ Head(left.asn_id) = Head(right.asn_id)
                /\ Range(re_split(left.products[1].name, <<>>))
                       = Range(re_split(right.products[1].name, <<>>))
                /\ Len(left.products[1].members) = Len(right.products[1].members)
                /\ EveryLeftMemberOnRight(left.products[1], right.products[1]))

C19_Witness ==
    /\ pc = "asns_compared"
    /\ asns[1] = Asn(SPEC2, O001, <<Product(NRS_CAL, <<aS, bB>>)>>)
    /\ right_asns[1] = Asn(SPEC2, O002, <<Product(CAL_NRS, <<bB, aS>>)>>)
    /\ result = Pass

\* Two associations of the list have the same product name.
HasDuplicateName(as) ==
    \E i, j \in 1..Len(as) : i # j /\ as[i].products[1].name = as[j].products[1].name

\* The product names of the list.
NameSet(as) == {as[i].products[1].name : i \in 1..Len(as)}

\* C20: compare_asn_lists raises the failure of the product names before any
\* two associations are compared: the duplicates of the left when it has
\* some, else the duplicates of the right, else the difference of the name
\* sets, whatever the associations hold otherwise.
C20_NameChecksFirst ==
    pc = "lists_compared" =>
        /\ HasDuplicateName(asns) =>
               result = Fail("Left associations have duplicate products")
        /\ (~HasDuplicateName(asns) /\ HasDuplicateName(right_asns)) =>
               result = Fail("Right associations have duplicate products")
        /\ (/\ ~HasDuplicateName(asns)
            /\ ~HasDuplicateName(right_asns)
            /\ NameSet(asns) # NameSet(right_asns)) =>
               result = Fail("Associations do not share a common set of products")

C20_Witness ==
    /\ pc = "lists_compared"
    /\ asns = <<Asn(IMAGE2, O001, <<Product(NRS_CAL, <<aS>>)>>),
                Asn(IMAGE2, O001, <<Product(MIR_CAL, <<aS>>)>>)>>
    /\ right_asns = <<Asn(IMAGE2, C002, <<Product(NRS_CAL, <<aS>>)>>),
                      Asn(IMAGE2, O001, <<Product(NRS_CAL, <<aB>>)>>)>>
    /\ result = Fail("Right associations have duplicate products")

-----------------------------------------------------------------------------
(* Claims about the failures of the comparisons *)

\* A comparison was made and raised.
ComparisonRaised == pc \in {"lists_raised", "asns_raised"} /\ result.raised

\* The product names more than one association of the list has.
DuplicatedNames(as) ==
    {as[i].products[1].name : i \in {k \in 1..Len(as) :
        \E j \in 1..Len(as) : j # k /\ as[j].products[1].name = as[k].products[1].name}}

\* C21 as stated: every failure the comparisons raise carries the offending
\* value of the left and that of the right.
C21_FailuresCarryBothSides ==
    ComparisonRaised => {"left", "right"} \subseteq DOMAIN result.values

\* C21 (amended): a failure raised for two associations (type, candidate
\* class, number of products or members, role, member or product without
\* counterpart) carries the reason and both associations; the failure for
\* duplicate product names carries the duplicated names of the one side it
\* was raised for, and the failure for differing name sets carries the names
\* that are on one side only, without saying on which.
C21_PairFailuresCarryBothSides ==
    ComparisonRaised =>
        IF result.reason = "Left associations have duplicate products"
        THEN /\ DOMAIN result.values = {"left_duplicates"}
             /\ Range(result.values.left_duplicates) = DuplicatedNames(asns)
        ELSE IF result.reason = "Right associations have duplicate products"
        THEN /\ DOMAIN result.values = {"right_duplicates"}
             /\ Range(result.values.right_duplicates) = DuplicatedNames(right_asns)
        ELSE IF result.reason = "Associations do not share a common set of products"
        THEN /\ DOMAIN result.values = {"name_diff"}
             /\ result.values.name_diff =
                    (NameSet(asns) \ NameSet(right_asns))
                        \cup (NameSet(right_asns) \ NameSet(asns))
        ELSE /\ {"reason", "left", "right"} \subseteq DOMAIN result.values
             /\ result.values.reason = result.reason
             /\ result.values.left \in Range(asns)
             /\ result.values.right \in Range(right_asns)
             /\ pc = "asns_raised" =>
                    /\ result.values.left = asns[1]
                    /\ result.values.right = right_asns[1]

C21_Witness ==
    /\ pc = "lists_raised"
    /\ asns = <<Asn(IMAGE2, O001, <<Product(NRS_CAL, <<aS>>)>>),
                Asn(IMAGE2, O001, <<Product(MIR_CAL, <<aS>>)>>)>>
    /\ right_asns = <<Asn(SPEC2, O001, <<Product(NRS_CAL, <<aS>>)>>),
                      Asn(IMAGE2, O001, <<Product(MIR_CAL, <<aS>>)>>)>>
    /\ result = AssertionError("Type mismatch",
                               [reason |-> "Type mismatch",
                                left |-> asns[1], right |-> right_asns[1]])

-----------------------------------------------------------------------------
(* Claims about _merge_asns, continued *)

\* The association of the list is the first one of its key.
FirstOfKey(as, i) == \A j \in 1..(i - 1) : KeyOf(as[j]) # KeyOf(as[i])

\* The association returned for the key.
MergedFor(key) ==
    Lv2Result[CHOOSE k \in 1..Len(Lv2Result) : KeyOf(Lv2Result[k]) = key]

\* C22: the association that _merge_asns folds the others of its key into
\* keeps the members of each of its products, in their place and role, and a
\* member of an incoming product of the same name whose expname the product
\* already holds is not added, whatever its role; nothing is raised.
C22_FirstSeenRoleWins ==
    pc = "merged" =>
        \A i \in 1..Len(asns) :
            FirstOfKey(asns, i) =>
                \A p \in 1..Len(asns[i].products) :
                    LET first_seen == asns[i].products[p].members
                        now == MergedFor(KeyOf(asns[i])).products[p].members
                    IN /\ Len(now) >= Len(first_seen)
                       /\ SubSeq(now, 1, Len(first_seen)) = first_seen
                       /\ \A k \in (Len(first_seen) + 1)..Len(now) :
                              now[k].expname \notin ExpNames(first_seen)

C22_Witness ==
    /\ pc = "merged"
    /\ asns = <<Asn(IMAGE2, O001, <<Product(NameA, <<xS, yS>>)>>),
                Asn(IMAGE2, O001, <<Product(NameA, <<yB, zS>>)>>)>>
    /\ Lv2Result = <<Asn(IMAGE2, O001, <<Product(NameA, <<xS, yS, zS>>)>>)>>

\* The (asn_type, asn_id, product name, expname) of every member of the list.
Membership(as) ==
    UNION {UNION {{<<as[i].asn_type, as[i].asn_id, as[i].products[p].name, m.expname>> :
                      m \in Range(as[i].products[p].members)} :
                  p \in 1..Len(as[i].products)} :
           i \in 1..Len(as)}

\* C24: the associations _merge_asns returns hold the same
\* (asn_type, asn_id, product name, expname) tuples as the ones it was given.
C24_MembershipKept ==
    pc = "merged" => Membership(Lv2Result) = Membership(asns)

C24_Witness ==
    /\ pc = "merged"
    /\ asns = <<Asn(SPEC2, O001, <<Product(NameA, <<xS>>), Product(NameB, <<yS>>)>>),
                Asn(IMAGE2, O001, <<Product(NameB, <<zS>>)>>),
                Asn(SPEC2, O001, <<Product(NameB, <<yS, yB>>)>>)>>
    /\ Len(Lv2Result) = 2
    /\ Lv2Result[1].products = <<Product(NameA, <<xS>>), Product(NameB, <<yS>>)>>
    /\ Cardinality(Membership(asns)) = 3

-----------------------------------------------------------------------------
(* Claims about _add_items, continued *)

\* C23: _add_items with a candidate id that starts with 'o' or 'c' returns
\* and has added one product per item, in the order of the items, each with
\* the one member (item, science); a product whose product_name_func raised
\* has the name derived from its item, and the items after it have their
\* products too.
C23_OneProductPerItem ==
    (pc = "_add_items" /\ call.acid # <<>> /\ Head(call.acid) \in {"o", "c"}) =>
        LET before == Len(call.self.products)
        IN /\ result.raised = "none"
           /\ Len(association.products) = before + Len(call.items)
           /\ SubSeq(association.products, 1, before) = call.self.products
           /\ \A i \in 1..Len(call.items) :
                  LET product == association.products[before + i]
                  IN /\ product.members = <<Member(call.items[i], "science")>>
                     /\ ~FuncReturns(call.product_name_func, i) =>
                            product.name = remove_suffix(splitext(call.items[i]))
                     /\ FuncReturns(call.product_name_func, i) =>
                            product.name = FuncName(i)

C23_Witness ==
    /\ pc = "_add_items"
    /\ call.acid = C002
    /\ call.product_name_func = "raises_first"
    /\ call.items = <<A_RATE, B_CAL>>
    /\ result.raised = "none"
    /\ association.products =
           call.self.products
               \o <<Product(<<"a">>, <<Member(A_RATE, "science")>>),
                    Product(FuncName(2), <<Member(B_CAL, "science")>>)>>

-----------------------------------------------------------------------------
(* Claims about compare_membership, continued *)

\* The outcome is not the failure of the check of the right members that no
\* left member consumed.
NoneUnaccounted(compared) ==
    compared.ok \/ compared.failure # "Right has unaccounted for members"

\* C25: no comparison fails with 'Right has ... unaccounted for members':
\* the member counts of the two products are equal when the member loop
\* starts and each left member removes one right member, so none is left
\* when the check of the remaining right members is reached.
C25_UnaccountedUnreachable ==
    /\ pc \in {"lists_compared", "asns_compared"} => NoneUnaccounted(result)
    /\ pc \in {"lists_both", "asns_both", "asns_permuted"} =>
           NoneUnaccounted(result) /\ NoneUnaccounted(result2)
    /\ (pc \in {"lists_raised", "asns_raised"} /\ result.raised) =>
           result.reason # "Right has unaccounted for members"

C25_Witness ==
    /\ pc = "asns_raised"
    /\ asns[1].products = <<Product(NRS_CAL, <<aS, aB>>)>>
    /\ right_asns[1].products = <<Product(NRS_CAL, <<aS, aB>>)>>
    /\ asns[1].asn_type = right_asns[1].asn_type
    /\ asns[1].asn_id = right_asns[1].asn_id
    /\ result = NotRaised

=============================================================================
